---- MODULE Spec2Model ----
(***************************************************************************)
(* Model of lpi_control_demo: the leaky proportional-integral controller   *)
(* (lpi_controller.py), the signal sources (utility_funcs.py and the       *)
(* interpolation adapter of model_fitting.py) and the fitting engine       *)
(* (model_fitting.py).                                                     *)
(*                                                                         *)
(* Numbers.  The program computes in floating point; the model computes    *)
(* exactly.  Gains, samples and states are integers, time is counted in    *)
(* ticks of half a sample spacing (so the interior stage of a solver step  *)
(* falls on a tick), a signal value is the exact fraction num/den, and a   *)
(* cost is the exact fraction <<num, den>>.                                *)
(***************************************************************************)
EXTENDS Integers, Sequences, FiniteSets, TLC

VARIABLES
    \* ---- one call into model_fitting.py ----
    entry,        \* which function the caller called
    controller,   \* the controller argument
    disp_cost,    \* the disp_cost argument
    bounds,       \* the caller's bounds dict
    datasets,     \* the caller's datasets (fit_controller: its one t/omega/setpt/disable)
    xarg,         \* the x argument of a direct cost_func / ensemble_cost_func call
    seed,         \* the optimizer's random seed
    ncall,        \* which of the caller's calls this is (1: the first)
    pc,           \* where the call is
    lbounds,      \* the local _bounds list
    lparam,       \* the local param built after the search
    ldatasets,    \* the local _datasets (copies, with the adapters added)
    adapters,     \* fit_controller's locals setpt_func / disable_func, once built
    nextid,       \* identity of the next adapter object created
    gen,          \* optimizer: current generation
    pop,          \* optimizer: the population (candidate vectors)
    popcost,      \* optimizer: cost of each member of pop, NoCost if not evaluated
    trial,        \* optimizer: the trial vectors of this generation
    trialcost,    \* optimizer: their costs, NoCost if a worker has not finished
    best,         \* optimizer: results.x once the search has finished
    result,       \* the value returned by the call
    err,          \* the exception the call ended with, or NoError
    steps,        \* history: the steps of the call, in the order reached
    nsolve,       \* history: number of LPIController.solve calls
    nprinted,     \* history: number of cost lines printed
    evals,        \* history: the simulations of the latest cost function call
    lastx,        \* history: the vector x of the latest cost function call
    \* ---- a pair of controllers being integrated ----
    paramA, paramB, \* the param dicts the two controllers were built from
    ctlA, ctlB,   \* the two LPIController objects
    yA, yB,       \* their states (y[0], y[1])
    tnow,         \* the solver's time
    nstep,        \* solver steps taken
    setptA, setptB, \* history: number of evaluations of each set-point signal
    calls,        \* history: the state_func evaluations of controller A's last step
    diag,         \* the values the diagnostics of controller A have returned, by method
    \* ---- solve_ivp, seen from a cost function call ----
    reached,      \* per simulation: the points of t_eval the solver gets to (all: success)
    ivp,          \* the OdeResult solve_ivp returned last
    yret,         \* the value LPIController.solve returned last
    \* ---- an adapter being queried ----
    itp,          \* the adapter create_interp_func returned
    query,        \* the time it was called with last
    answer        \* the value that call returned

fitvars == <<entry, controller, disp_cost, bounds, datasets, xarg, seed, ncall, pc, lbounds, lparam,
             ldatasets, adapters, nextid, gen, pop, popcost, trial, trialcost, best,
             result, err, steps, nsolve, nprinted, evals, lastx>>
solvevars == <<reached, ivp, yret>>
sigvars == <<itp, query, answer>>
ctlvars == <<paramA, paramB, ctlA, ctlB, yA, yB, tnow, nstep, setptA, setptB, calls, diag,
             solvevars, sigvars>>
vars == <<fitvars, ctlvars>>

-----------------------------------------------------------------------------
(* Bounds of the model *)

MaxGain == 1        \* gains and bound ends range over 0..MaxGain
MaxSteps == 3       \* solver steps taken by the controller pair
MaxDatasets == 2    \* longest list of datasets given to the ensemble functions
PopSize == 2        \* members of the optimizer's population
MaxGen == 1         \* generations of trial vectors the optimizer runs
MaxSeed == 1        \* the optimizer's seed ranges over 0..MaxSeed
MaxCalls == 2       \* calls the caller makes one after the other
SignificandBits == 11 \* significant bits of the model's floating-point numbers

-----------------------------------------------------------------------------
(* Signal sources: callables of time.  A value is the fraction num/den. *)

\* utility_funcs.false_func
false_func == [kind |-> "false_func"]

\* functools.partial(timed_disable, t0=t0)
timed_disable(t0) == [kind |-> "timed_disable", t0 |-> t0]

\* functools.partial(pulse_func, t0=t0, t1=t1, step=step)
pulse_func(t0, t1, step) == [kind |-> "pulse_func", t0 |-> t0, t1 |-> t1, step |-> step]

\* model_fitting.create_interp_func: a new interp1d object over (t, data)
create_interp_func(id, t, data) == [kind |-> "interp", id |-> id, t |-> t, v |-> data]

\* interp1d's segment for query q: searchsorted(x, q) clipped to 1..N-1 is the
\* upper node (0-based), so the lower node is, 1-based, that same number.
InterpLo(ts, q) ==
    LET cnt == Cardinality({i \in 1..Len(ts) : ts[i] < q})
    IN  IF cnt < 1 THEN 1 ELSE IF cnt > Len(ts) - 1 THEN Len(ts) - 1 ELSE cnt

\* Numerator and denominator of the value of signal sig at time q
SigDen(sig, q) ==
    IF sig.kind = "interp"
    THEN LET lo == InterpLo(sig.t, q) IN sig.t[lo + 1] - sig.t[lo]
    ELSE 1

SigNum(sig, q) ==
    CASE sig.kind = "false_func" -> 0
      [] sig.kind = "timed_disable" -> IF q <= sig.t0 THEN 0 ELSE 1
      [] sig.kind = "pulse_func" ->
            IF q < sig.t0 THEN 0
            ELSE IF q > sig.t0 /\ q < sig.t1 THEN sig.step
            ELSE 0
      [] sig.kind = "interp" ->
            LET lo == InterpLo(sig.t, q)
            IN  sig.v[lo] * (sig.t[lo + 1] - sig.t[lo])
                  + (sig.v[lo + 1] - sig.v[lo]) * (q - sig.t[lo])

\* A faulty truth test: only a value of 1 or more counts as true
TruthyFromOne(sig, q) == SigNum(sig, q) >= SigDen(sig, q)

\* Python truth of the value returned by a signal
Truthy(sig, q) == SigNum(sig, q) # 0

\* The value as a number (the signals used make it whole at every tick)
SigVal(sig, q) == SigNum(sig, q) \div SigDen(sig, q)

-----------------------------------------------------------------------------
(* lpi_controller.py: LPIController *)

GainKeys == {"dcoef", "pgain", "igain", "ileak"}

\* LPIController.__init__
LPIController(param) ==
    [dcoef |-> param["dcoef"], pgain |-> param["pgain"],
     igain |-> param["igain"], ileak |-> param["ileak"],
     setpt |-> param["setpt"],
     disable |-> IF "disable" \in DOMAIN param THEN param["disable"] ELSE false_func]

\* A faulty state_func: the integral term uses pgain
state_func_wrong_gain(self, t, y) ==
    IF Truthy(self.disable, t)
    THEN [dy |-> <<-self.dcoef * y[1] + y[2], -self.ileak * y[2]>>, setpt_calls |-> 0]
    ELSE LET errv == SigVal(self.setpt, t) - y[1]
         IN  [dy |-> <<-self.dcoef * y[1] + y[2] + self.pgain * errv,
                       -self.ileak * y[2] + self.pgain * errv>>,
              setpt_calls |-> 1]

\* A faulty state_func: the integral feedback stays on while disabled
state_func_feedback_when_disabled(self, t, y) ==
    LET errv == SigVal(self.setpt, t) - y[1]
    IN  IF Truthy(self.disable, t)
        THEN [dy |-> <<-self.dcoef * y[1] + y[2], -self.ileak * y[2] + self.igain * errv>>,
              setpt_calls |-> 1]
        ELSE [dy |-> <<-self.dcoef * y[1] + y[2] + self.pgain * errv,
                       -self.ileak * y[2] + self.igain * errv>>,
              setpt_calls |-> 1]

\* LPIController.state_func: dy, and how often it called self.setpt
state_func(self, t, y) ==
    IF Truthy(self.disable, t)
    THEN [dy |-> <<-self.dcoef * y[1] + y[2], -self.ileak * y[2]>>, setpt_calls |-> 0]
    ELSE LET errv == SigVal(self.setpt, t) - y[1]
         IN  [dy |-> <<-self.dcoef * y[1] + y[2] + self.pgain * errv,
                       -self.ileak * y[2] + self.igain * errv>>,
              setpt_calls |-> 1]

\* One explicit Runge-Kutta step of size h taken by solve_ivp on state_func: a
\* stage at (t, y) and an interior stage at t + h/2.  The record holds the new
\* state, the stage evaluations and the number of set-point evaluations.
RKStep(self, t, y, h) ==
    LET k1 == state_func(self, t, y)
        ym == <<y[1] + (h \div 2) * k1.dy[1], y[2] + (h \div 2) * k1.dy[2]>>
        k2 == state_func(self, t + (h \div 2), ym)
    IN  [y |-> <<y[1] + h * k2.dy[1], y[2] + h * k2.dy[2]>>,
         calls |-> <<[t |-> t, y |-> y, dy |-> k1.dy],
                     [t |-> t + (h \div 2), y |-> ym, dy |-> k2.dy]>>,
         setpt_calls |-> k1.setpt_calls + k2.setpt_calls]

\* LPIController.solve: max_step is the spacing of the first two time points
max_step(t_vals) == t_vals[2] - t_vals[1]

\* LPIController.solve: the states at the points of t_vals (which the model keeps
\* max_step apart, so every step of the solver ends on the next point)
RECURSIVE solve_from(_, _, _, _)
solve_from(self, t_vals, k, y) ==
    IF k = Len(t_vals) THEN <<y>>
    ELSE <<y>> \o solve_from(self, t_vals, k + 1,
                            RKStep(self, t_vals[k], y, max_step(t_vals)).y)

\* solve_ivp(self.state_func, (t_min, t_max), y_init, t_eval=t_vals, ...): the
\* OdeResult.  The solver either integrates to t_max (success, y at every point
\* of t_eval) or reports failure after npts points of t_eval, and then y holds
\* those npts points only; with none reached y is the empty list.
solve_ivp(self, t_vals, y_init, npts) ==
    [success |-> npts = Len(t_vals),
     y |-> SubSeq(solve_from(self, t_vals, 1, y_init), 1, npts)]

\* LPIController.solve, lines 89-90: y_vals = result.y; return y_vals
solve_returns(res) == res.y

\* LPIController.solve with a solver that integrates to t_max
solve(self, t_vals, y_init) == solve_returns(solve_ivp(self, t_vals, y_init, Len(t_vals)))

-----------------------------------------------------------------------------
(* A pair of controllers integrated side by side (lpi_controller.py) *)

Gains == 0..MaxGain

\* Set-point signals: a pulse, and an adapter over samples at t = 0, 2, 4
SetptSources ==
    {pulse_func(1, 5, 2), create_interp_func(1, <<0, 2, 4>>, <<0, 2, 4>>)}

\* Disable signals: disabled from the start, disabled after t = 2, sampled flags
\* that rise to 1, sampled flags that are all 1
DisableSources ==
    {timed_disable(-1), timed_disable(2),
     create_interp_func(2, <<0, 2, 4>>, <<0, 0, 1>>),
     create_interp_func(3, <<0, 2, 4>>, <<1, 1, 1>>)}

\* y_init: the default [0.0, 0.0] and a supplied one
InitialStates == {<<0, 0>>, <<1, 1>>}

\* The param dicts: the four gains and setpt, with or without a disable entry
GainDicts == [GainKeys -> Gains]

ParamDicts ==
    {g @@ [setpt |-> s] : g \in GainDicts, s \in SetptSources}
    \cup {g @@ [setpt |-> s, disable |-> d] :
             g \in GainDicts, s \in SetptSources, d \in DisableSources}

\* t_vals of the pair's solve call: MaxSteps + 1 points, two ticks apart
CtlTVals == [i \in 1..(MaxSteps + 1) |-> 2 * (i - 1)]

\* The ticks at which the solver evaluates state_func
Ticks == 0..CtlTVals[MaxSteps + 1]

IdleCtl ==
    /\ paramA = <<>> /\ paramB = <<>> /\ ctlA = <<>> /\ ctlB = <<>>
    /\ yA = <<0, 0>> /\ yB = <<0, 0>> /\ tnow = 0 /\ nstep = 0
    /\ setptA = 0 /\ setptB = 0 /\ calls = <<>> /\ diag = <<>>
    /\ reached = <<>> /\ ivp = <<>> /\ yret = <<>>
    /\ itp = <<>> /\ query = <<>> /\ answer = <<>>

\* Two controllers are built; B is given A's disable entry and initial state
CtlInitVars ==
    /\ paramA \in ParamDicts
    /\ paramB \in {p \in ParamDicts :
                      /\ ("disable" \in DOMAIN p) = ("disable" \in DOMAIN paramA)
                      /\ "disable" \in DOMAIN p => p["disable"] = paramA["disable"]}
    /\ ctlA = LPIController(paramA)
    /\ ctlB = LPIController(paramB)
    /\ yA \in InitialStates
    /\ yB = yA
    /\ tnow = 0 /\ nstep = 0
    /\ setptA = 0 /\ setptB = 0
    /\ calls = <<>>
    /\ diag = <<>>
    /\ reached = <<>> /\ ivp = <<>> /\ yret = <<>>
    /\ itp = <<>> /\ query = <<>> /\ answer = <<>>

\* solve_ivp advances both controllers by one step of size max_step
CtlStep ==
    /\ nstep < MaxSteps
    /\ LET a == RKStep(ctlA, tnow, yA, max_step(CtlTVals))
           b == RKStep(ctlB, tnow, yB, max_step(CtlTVals))
       IN  /\ yA' = a.y
           /\ yB' = b.y
           /\ setptA' = setptA + a.setpt_calls
           /\ setptB' = setptB + b.setpt_calls
           /\ calls' = a.calls
    /\ tnow' = tnow + max_step(CtlTVals)
    /\ nstep' = nstep + 1
    /\ UNCHANGED <<paramA, paramB, ctlA, ctlB, diag, solvevars, sigvars>>

\* A faulty get_determinant: the integral gain is subtracted
get_determinant_wrong_sign(self) == self.ileak * (self.pgain + self.dcoef) - self.igain

\* LPIController.get_determinant
get_determinant(self) == self.ileak * (self.pgain + self.dcoef) + self.igain

\* LPIController.get_trace
get_trace(self) == -(self.pgain + self.dcoef + self.ileak)

\* LPIController.get_discriminant
get_discriminant(self) == get_trace(self) * get_trace(self) - 4 * get_determinant(self)

\* LPIController.get_eigenvalues: the matrix A it hands to np.linalg.eig, by rows
\* (the eigenvalues themselves are not computed here)
get_eigenvalues(self) == <<<<-(self.pgain + self.dcoef), 1>>, <<-self.igain, -self.ileak>>>>

\* The diagnostic methods
Diagnostics == {"get_determinant", "get_trace", "get_discriminant", "get_eigenvalues"}

\* One controller is built, in either initial state
DiagInitVars ==
    /\ paramA \in ParamDicts
    /\ ctlA = LPIController(paramA)
    /\ yA \in InitialStates
    /\ paramB = <<>> /\ ctlB = <<>> /\ yB = <<0, 0>>
    /\ tnow = 0 /\ nstep = 0 /\ setptA = 0 /\ setptB = 0
    /\ calls = <<>>
    /\ diag = <<>>
    /\ reached = <<>> /\ ivp = <<>> /\ yret = <<>>
    /\ itp = <<>> /\ query = <<>> /\ answer = <<>>

\* The caller has called method m of controller A and got v
Returned(m, v) ==
    /\ m \notin DOMAIN diag
    /\ diag' = (m :> v) @@ diag
    /\ UNCHANGED <<paramA, paramB, ctlA, ctlB, yA, yB, tnow, nstep, setptA, setptB, calls,
                   solvevars, sigvars>>

GetDeterminant == Returned("get_determinant", get_determinant(ctlA))

GetTrace == Returned("get_trace", get_trace(ctlA))

GetDiscriminant == Returned("get_discriminant", get_discriminant(ctlA))

GetEigenvalues == Returned("get_eigenvalues", get_eigenvalues(ctlA))

-----------------------------------------------------------------------------
(* model_fitting.py: the cost functions *)

NoError == "none"

\* None, an unbound local, an empty dict or list
Nothing == <<>>
IsNothing(v) == DOMAIN v = {}

\* A cost is the exact fraction <<num, den>>
RatAdd(a, b) == <<a[1] * b[2] + b[1] * a[2], a[2] * b[2]>>
RatDivInt(a, n) == <<a[1], a[2] * n>>
RatEq(a, b) == a[1] * b[2] = b[1] * a[2]
RatLeq(a, b) == a[1] * b[2] <= b[1] * a[2]

\* np.sum((omega_fit - omega)**2)
RECURSIVE SumSqFrom(_, _, _)
SumSqFrom(a, b, k) ==
    IF k > Len(a) THEN 0
    ELSE (a[k] - b[k]) * (a[k] - b[k]) + SumSqFrom(a, b, k + 1)

\* A faulty sum: the differences are not squared
RECURSIVE SumDiffFrom(_, _, _)
SumDiffFrom(a, b, k) ==
    IF k > Len(a) THEN 0 ELSE (a[k] - b[k]) + SumDiffFrom(a, b, k + 1)

SumDiff(a, b) == SumDiffFrom(a, b, 1)

\* np.sum((omega_fit - omega)**2)
SumSq(a, b) == SumSqFrom(a, b, 1)

\* y[0] of the array solve returns: the angular velocity at every time point
Omega(y) == [i \in 1..Len(y) |-> y[i][1]]

\* A faulty match: x[0] and x[1] are taken for each other's gain
CostParamSwapped(x, setpt_func, disable_func, ctrl) ==
    CASE ctrl = "lpi" ->
            [dcoef |-> x[2], pgain |-> x[1], igain |-> x[3], ileak |-> x[4],
             setpt |-> setpt_func, disable |-> disable_func]
      [] ctrl = "pi" ->
            [dcoef |-> x[2], pgain |-> x[1], igain |-> x[3], ileak |-> 0,
             setpt |-> setpt_func, disable |-> disable_func]
      [] ctrl = "p" ->
            [dcoef |-> x[2], pgain |-> x[1], igain |-> 0, ileak |-> 0,
             setpt |-> setpt_func, disable |-> disable_func]
      [] OTHER -> Nothing

\* cost_func, lines 353-382: the match that builds param from x
CostParam(x, setpt_func, disable_func, ctrl) ==
    CASE ctrl = "lpi" ->
            [dcoef |-> x[1], pgain |-> x[2], igain |-> x[3], ileak |-> x[4],
             setpt |-> setpt_func, disable |-> disable_func]
      [] ctrl = "pi" ->
            [dcoef |-> x[1], pgain |-> x[2], igain |-> x[3], ileak |-> 0,
             setpt |-> setpt_func, disable |-> disable_func]
      [] ctrl = "p" ->
            [dcoef |-> x[1], pgain |-> x[2], igain |-> 0, ileak |-> 0,
             setpt |-> setpt_func, disable |-> disable_func]
      [] OTHER -> Nothing

\* One simulation and its cost: LPIController(param), solve, y[0], sum/shape[0]
\* Lines 386-387 / 178-179: omega_fit = y[0]; cost = np.sum(...)/omega.shape[0]
CostOf(param, t, omega, omega_fit) ==
    [param |-> param, t |-> t, omega |-> omega, omega_fit |-> omega_fit,
     cost |-> <<SumSq(omega_fit, omega), Len(omega)>>]

SimCost(param, t, omega) ==
    CostOf(param, t, omega, Omega(solve(LPIController(param), t, <<0, 0>>)))

\* cost_func: what the call does.  status is the exception raised (NoError when
\* it returns), sims the simulations run (in order), printed the lines printed.
cost_func_return(sim, disp) ==
    [status |-> NoError, cost |-> sim.cost, sims |-> <<sim>>,
     printed |-> IF disp THEN <<sim.cost>> ELSE <<>>]

cost_func_body(param, t, omega, disp) ==
    IF IsNothing(param)
    THEN [status |-> "ValueError", cost |-> Nothing, sims |-> <<>>, printed |-> <<>>]
    ELSE cost_func_return(SimCost(param, t, omega), disp)

cost_func(x, t, omega, setpt_func, disable_func, disp, ctrl) ==
    cost_func_body(CostParam(x, setpt_func, disable_func, ctrl), t, omega, disp)

\* A faulty match: a name that is no variant is taken for p
EnsCostParamLenient(x, ctrl) ==
    CASE ctrl = "lpi" -> [dcoef |-> x[1], pgain |-> x[2], igain |-> x[3], ileak |-> x[4]]
      [] ctrl = "pi" -> [dcoef |-> x[1], pgain |-> x[2], igain |-> x[3], ileak |-> 0]
      [] OTHER -> [dcoef |-> x[1], pgain |-> x[2], igain |-> 0, ileak |-> 0]

\* ensemble_cost_func, lines 147-170: the match that builds param from x
EnsCostParam(x, ctrl) ==
    CASE ctrl = "lpi" -> [dcoef |-> x[1], pgain |-> x[2], igain |-> x[3], ileak |-> x[4]]
      [] ctrl = "pi" -> [dcoef |-> x[1], pgain |-> x[2], igain |-> x[3], ileak |-> 0]
      [] ctrl = "p" -> [dcoef |-> x[1], pgain |-> x[2], igain |-> 0, ileak |-> 0]
      [] OTHER -> Nothing

\* ensemble_cost_func, lines 173-180: the loop over the datasets from the k-th on;
\* every pass rebinds param's setpt and disable and runs one simulation
RECURSIVE EnsembleSims(_, _, _)
EnsembleSims(param, dsets, k) ==
    IF k > Len(dsets) THEN <<>>
    ELSE <<SimCost([setpt |-> dsets[k].setpt_func, disable |-> dsets[k].disable_func]
                      @@ param,
                   dsets[k].t, dsets[k].omega)>>
         \o EnsembleSims(param, dsets, k + 1)

\* total_cost after the loop, starting from 0.0
RECURSIVE total_cost(_, _)
total_cost(sims, k) ==
    IF k = 0 THEN <<0, 1>> ELSE RatAdd(total_cost(sims, k - 1), sims[k].cost)

\* ensemble_cost_func: what the call does.  Line 181 divides by len(datasets)
\* (ZeroDivisionError for an empty list); line 183 formats the name totalcost,
\* which is not defined (the local is total_cost), so printing raises NameError.
ensemble_cost_func_return(sims, n, disp) ==
    IF n = 0
    THEN [status |-> "ZeroDivisionError", cost |-> Nothing, sims |-> sims, printed |-> <<>>]
    ELSE IF disp
    THEN [status |-> "NameError", cost |-> Nothing, sims |-> sims, printed |-> <<>>]
    ELSE [status |-> NoError, cost |-> RatDivInt(total_cost(sims, Len(sims)), n),
          sims |-> sims, printed |-> <<>>]

ensemble_cost_func_body(param, dsets, disp) ==
    IF IsNothing(param)
    THEN [status |-> "ValueError", cost |-> Nothing, sims |-> <<>>, printed |-> <<>>]
    ELSE ensemble_cost_func_return(EnsembleSims(param, dsets, 1), Len(dsets), disp)

ensemble_cost_func(x, dsets, disp, ctrl) ==
    ensemble_cost_func_body(EnsCostParam(x, ctrl), dsets, disp)

-----------------------------------------------------------------------------
(* model_fitting.py: the fitting functions *)

\* [bounds[k] for k in keys]: KeyError at the first key the dict lacks
BoundList(bnds, keys) ==
    IF \A i \in 1..Len(keys) : keys[i] \in DOMAIN bnds
    THEN [status |-> NoError, list |-> [i \in 1..Len(keys) |-> bnds[keys[i]]]]
    ELSE [status |-> "KeyError", list |-> <<>>]

\* fit_controller, lines 249-257: the match that builds _bounds
FitBounds(bnds, ctrl) ==
    CASE ctrl = "lpi" -> BoundList(bnds, <<"dcoef", "pgain", "igain", "ileak">>)
      [] ctrl = "pi" -> BoundList(bnds, <<"dcoef", "pgain", "igain">>)
      [] ctrl = "p" -> BoundList(bnds, <<"dcoef", "pgain">>)
      [] OTHER -> [status |-> "ValueError", list |-> <<>>]

\* ensemble_fit_controller, lines 59-67: the match that builds _bounds
EnsFitBounds(bnds, ctrl) ==
    CASE ctrl = "lpi" -> BoundList(bnds, <<"dcoef", "pgain", "igain", "ileak">>)
      [] ctrl = "pi" -> BoundList(bnds, <<"dcoef", "pgain", "igain">>)
      [] ctrl = "p" -> BoundList(bnds, <<"dcoef", "pgain">>)
      [] OTHER -> [status |-> "ValueError", list |-> <<>>]

\* A faulty match: unused gains are filled from the vector
FitUnpackLeaky(x, setpt_func, disable_func, ctrl) ==
    CASE ctrl = "lpi" ->
            [dcoef |-> x[1], pgain |-> x[2], igain |-> x[3], ileak |-> x[4],
             setpt |-> setpt_func, disable |-> disable_func]
      [] ctrl = "pi" ->
            [dcoef |-> x[1], pgain |-> x[2], igain |-> x[3], ileak |-> x[3],
             setpt |-> setpt_func, disable |-> disable_func]
      [] ctrl = "p" ->
            [dcoef |-> x[1], pgain |-> x[2], igain |-> x[2], ileak |-> 0,
             setpt |-> setpt_func, disable |-> disable_func]
      [] OTHER -> Nothing

\* A faulty match: setpt and disable get each other's adapter
FitUnpackSwappedSignals(x, setpt_func, disable_func, ctrl) ==
    CASE ctrl = "lpi" ->
            [dcoef |-> x[1], pgain |-> x[2], igain |-> x[3], ileak |-> x[4],
             setpt |-> disable_func, disable |-> setpt_func]
      [] ctrl = "pi" ->
            [dcoef |-> x[1], pgain |-> x[2], igain |-> x[3], ileak |-> 0,
             setpt |-> disable_func, disable |-> setpt_func]
      [] ctrl = "p" ->
            [dcoef |-> x[1], pgain |-> x[2], igain |-> 0, ileak |-> 0,
             setpt |-> disable_func, disable |-> setpt_func]
      [] OTHER -> Nothing

\* fit_controller, lines 276-305: the match that builds param from results.x
FitUnpack(x, setpt_func, disable_func, ctrl) ==
    CASE ctrl = "lpi" ->
            [dcoef |-> x[1], pgain |-> x[2], igain |-> x[3], ileak |-> x[4],
             setpt |-> setpt_func, disable |-> disable_func]
      [] ctrl = "pi" ->
            [dcoef |-> x[1], pgain |-> x[2], igain |-> x[3], ileak |-> 0,
             setpt |-> setpt_func, disable |-> disable_func]
      [] ctrl = "p" ->
            [dcoef |-> x[1], pgain |-> x[2], igain |-> 0, ileak |-> 0,
             setpt |-> setpt_func, disable |-> disable_func]
      [] OTHER -> Nothing

\* ensemble_fit_controller, lines 88-111: the match that builds param from results.x
EnsFitUnpack(x, ctrl) ==
    CASE ctrl = "lpi" -> [dcoef |-> x[1], pgain |-> x[2], igain |-> x[3], ileak |-> x[4]]
      [] ctrl = "pi" -> [dcoef |-> x[1], pgain |-> x[2], igain |-> x[3], ileak |-> 0]
      [] ctrl = "p" -> [dcoef |-> x[1], pgain |-> x[2], igain |-> 0, ileak |-> 0]
      [] OTHER -> Nothing

-----------------------------------------------------------------------------
(* scipy.optimize.differential_evolution as the fitting functions call it:    *)
(* updating='deferred', polish=False.  The library draws its vectors from a   *)
(* seeded generator; the model draws them from Draw, inside the bounds.       *)

NoCost == <<>>

Draw(sd, g, i, k) == sd + 2 * g + 3 * i + 5 * k + g * i * k

Width(b) == b[2] - b[1] + 1

\* The initial population
InitPop(sd, lb) ==
    [i \in 1..PopSize |-> [k \in 1..Len(lb) |-> lb[k][1] + (Draw(sd, 0, i, k) % Width(lb[k]))]]

\* The first member of least cost
BestIndex(costs) ==
    CHOOSE i \in 1..Len(costs) :
        /\ \A j \in 1..Len(costs) : RatLeq(costs[i], costs[j])
        /\ \A j \in 1..(i - 1) : ~RatLeq(costs[j], costs[i])

\* The trial vectors of generation g, built around the best member of the
\* fully evaluated population
TrialPop(sd, g, population, costs, lb) ==
    LET b == population[BestIndex(costs)]
    IN  [i \in 1..PopSize |->
            [k \in 1..Len(lb) |->
                lb[k][1] + ((b[k] - lb[k][1] + Draw(sd, g, i, k)) % Width(lb[k]))]]

\* Selection: a trial replaces its member when it is no worse
SelectPop(population, costs, trials, tcosts) ==
    [i \in 1..PopSize |-> IF RatLeq(tcosts[i], costs[i]) THEN trials[i] ELSE population[i]]

SelectCost(costs, tcosts) ==
    [i \in 1..PopSize |-> IF RatLeq(tcosts[i], costs[i]) THEN tcosts[i] ELSE costs[i]]

-----------------------------------------------------------------------------
(* The callers' inputs *)

Entries == {"fit_controller", "ensemble_fit_controller", "cost_func", "ensemble_cost_func"}
FitEntries == {"fit_controller", "ensemble_fit_controller"}
CostEntries == {"cost_func", "ensemble_cost_func"}
SingleEntries == {"fit_controller", "cost_func"}

\* The controller names callers pass: the three variants and an unknown one
ControllerNames == {"p", "pi", "lpi", "pid"}

\* Datasets: t in ticks (samples two ticks apart), omega, setpt, disable (0/1).
\* The second is the trajectory of dcoef = pgain = 1 under its own set point.
DatasetPool ==
    {[t |-> <<0, 2, 4>>, omega |-> <<0, 0, 2>>, setpt |-> <<2, 2, 0>>, disable |-> <<0, 0, 1>>],
     [t |-> <<0, 2, 4>>, omega |-> <<0, -4, -24>>, setpt |-> <<2, 2, 2>>, disable |-> <<0, 0, 0>>],
     [t |-> <<0, 2>>, omega |-> <<0, 0>>, setpt |-> <<0, 0>>, disable |-> <<1, 1>>]}

\* Lists of at most n datasets
RECURSIVE DatasetLists(_)
DatasetLists(n) ==
    IF n = 0 THEN {<<>>}
    ELSE DatasetLists(n - 1)
         \cup {Append(l, d) : l \in {m \in DatasetLists(n - 1) : Len(m) = n - 1},
                              d \in DatasetPool}

\* The caller of ensemble_cost_func has put the adapters into its datasets
WithAdapters(dsets) ==
    [i \in 1..Len(dsets) |->
        [setpt_func |-> create_interp_func(2 * i - 1, dsets[i].t, dsets[i].setpt),
         disable_func |-> create_interp_func(2 * i, dsets[i].t, dsets[i].disable)]
        @@ dsets[i]]

\* Adapter identities below FirstId belong to the caller
FirstId(dsets) == 2 * Len(dsets) + 1

\* Bounds dicts: every gain over the whole range; intervals that tell the gains
\* apart and keep igain and ileak away from 0; a dict for the p variant only
BoundsDicts ==
    {[dcoef |-> <<0, MaxGain>>, pgain |-> <<0, MaxGain>>,
      igain |-> <<0, MaxGain>>, ileak |-> <<0, MaxGain>>],
     [dcoef |-> <<0, 0>>, pgain |-> <<1, MaxGain>>,
      igain |-> <<MaxGain, MaxGain>>, ileak |-> <<1, 1>>],
     [dcoef |-> <<0, MaxGain>>, pgain |-> <<1, 1>>]}

\* Candidate vectors handed to the cost functions directly: of the variant's
\* length (2 for a name that is no variant)
VectorLen(ctrl) == CASE ctrl = "lpi" -> 4 [] ctrl = "pi" -> 3 [] OTHER -> 2

Vectors(ctrl) == [1..VectorLen(ctrl) -> Gains]

-----------------------------------------------------------------------------
(* One call into model_fitting.py *)

IdleFit ==
    /\ entry = "none" /\ controller = "none" /\ disp_cost = FALSE
    /\ bounds = Nothing /\ datasets = <<>> /\ xarg = Nothing /\ seed = 0 /\ ncall = 0
    /\ pc = "idle" /\ lbounds = Nothing /\ lparam = Nothing /\ ldatasets = Nothing
    /\ adapters = Nothing /\ nextid = 1 /\ gen = 0 /\ pop = Nothing
    /\ popcost = Nothing /\ trial = Nothing /\ trialcost = Nothing
    /\ best = Nothing /\ result = Nothing /\ err = NoError /\ steps = <<>>
    /\ nsolve = 0 /\ nprinted = 0 /\ evals = <<>> /\ lastx = Nothing

\* The caller's arguments, and the locals before the first statement
FitInitVars ==
    /\ entry \in Entries
    /\ controller \in ControllerNames
    /\ disp_cost \in BOOLEAN
    /\ bounds \in (IF entry \in FitEntries THEN BoundsDicts ELSE {Nothing})
    /\ seed \in (IF entry \in FitEntries THEN 0..MaxSeed ELSE {0})
    /\ ncall = 1
    /\ datasets \in
         (CASE entry \in SingleEntries -> {<<d>> : d \in DatasetPool}
            [] entry = "ensemble_fit_controller" -> DatasetLists(MaxDatasets)
            [] entry = "ensemble_cost_func" ->
                  {WithAdapters(l) : l \in DatasetLists(MaxDatasets)})
    /\ xarg \in (IF entry \in CostEntries THEN Vectors(controller) ELSE {Nothing})
    /\ adapters = (IF entry = "cost_func"
                   THEN [setpt_func |-> create_interp_func(1, datasets[1].t, datasets[1].setpt),
                         disable_func |-> create_interp_func(2, datasets[1].t, datasets[1].disable)]
                   ELSE Nothing)
    /\ nextid = FirstId(datasets)
    /\ pc = "call"
    /\ lbounds = Nothing /\ lparam = Nothing /\ ldatasets = Nothing
    /\ gen = 0 /\ pop = Nothing /\ popcost = Nothing
    /\ trial = Nothing /\ trialcost = Nothing /\ best = Nothing
    /\ result = Nothing /\ err = NoError /\ steps = <<>>
    /\ nsolve = 0 /\ nprinted = 0 /\ evals = <<>> /\ lastx = Nothing

\* The outcome of a cost function call, written to the call's state
Outcome(x, r) ==
    /\ lastx' = x
    /\ evals' = r.sims
    /\ nsolve' = nsolve + Len(r.sims)
    /\ nprinted' = nprinted + Len(r.printed)

\* A direct call ends: the cost is returned or the exception reaches the caller
CallEnds(x, r) ==
    /\ Outcome(x, r)
    /\ err' = r.status
    /\ result' = r.cost
    /\ pc' = IF r.status = NoError THEN "done" ELSE "raised"

\* A caller calls cost_func(x, t, omega, setpt_func, disable_func, disp_cost, controller)
CostFuncCall ==
    /\ pc = "call" /\ entry = "cost_func"
    /\ CallEnds(xarg, cost_func(xarg, datasets[1].t, datasets[1].omega, adapters.setpt_func,
                               adapters.disable_func, disp_cost, controller))
    /\ UNCHANGED <<entry, controller, disp_cost, bounds, datasets, xarg, seed, ncall, lbounds,
                   lparam, ldatasets, adapters, nextid, gen, pop, popcost, trial,
                   trialcost, best, steps>>
    /\ UNCHANGED ctlvars

\* A caller calls ensemble_cost_func(x, datasets, disp_cost, controller)
EnsembleCostFuncCall ==
    /\ pc = "call" /\ entry = "ensemble_cost_func"
    /\ CallEnds(xarg, ensemble_cost_func(xarg, datasets, disp_cost, controller))
    /\ UNCHANGED <<entry, controller, disp_cost, bounds, datasets, xarg, seed, ncall, lbounds,
                   lparam, ldatasets, adapters, nextid, gen, pop, popcost, trial,
                   trialcost, best, steps>>
    /\ UNCHANGED ctlvars

-----------------------------------------------------------------------------
(* fit_controller and ensemble_fit_controller, statement by statement *)

optvars == <<gen, pop, popcost, trial, trialcost, best>>
argvars == <<entry, controller, disp_cost, bounds, datasets, xarg, seed, ncall>>
histvars == <<nsolve, nprinted, evals, lastx>>

\* Lines 249-257 / 59-67: the match on controller validates the name and
\* builds _bounds; an unknown name raises ValueError
Validate ==
    /\ pc = "call" /\ entry \in FitEntries
    /\ LET b == IF entry = "fit_controller" THEN FitBounds(bounds, controller)
                ELSE EnsFitBounds(bounds, controller)
       IN  IF b.status = NoError
           THEN /\ lbounds' = b.list
                /\ steps' = steps \o <<"validate", "bounds">>
                /\ pc' = "adapters"
                /\ err' = err
           ELSE /\ lbounds' = lbounds
                /\ steps' = steps \o <<"validate">>
                /\ pc' = "raised"
                /\ err' = b.status
    /\ UNCHANGED <<argvars, optvars, histvars, lparam, ldatasets, adapters, nextid, result>>
    /\ UNCHANGED ctlvars

\* fit_controller, lines 260-261: setpt_func and disable_func are created
FitBuildAdapters ==
    /\ pc = "adapters" /\ entry = "fit_controller"
    /\ adapters' = [setpt_func |-> create_interp_func(nextid, datasets[1].t, datasets[1].setpt),
                    disable_func |-> create_interp_func(nextid + 1, datasets[1].t,
                                                        datasets[1].disable)]
    /\ nextid' = nextid + 2
    /\ steps' = Append(steps, "adapters")
    /\ pc' = "search"
    /\ UNCHANGED <<argvars, optvars, histvars, lbounds, lparam, ldatasets, result, err>>
    /\ UNCHANGED ctlvars

\* ensemble_fit_controller, line 69: _datasets = [dict(ds) for ds in datasets]
EnsCopyDatasets ==
    /\ pc = "adapters" /\ entry = "ensemble_fit_controller"
    /\ ldatasets' = datasets
    /\ steps' = Append(steps, "adapters")
    /\ pc' = IF Len(datasets) = 0 THEN "search" ELSE "adapt_loop"
    /\ UNCHANGED <<argvars, optvars, histvars, lbounds, lparam, adapters, nextid, result, err>>
    /\ UNCHANGED ctlvars

\* The datasets of _datasets whose adapters have been added
Adapted(dsets) == {i \in 1..Len(dsets) : "setpt_func" \in DOMAIN dsets[i]}

\* A faulty loop, as after _datasets = datasets: the adapters are put into the
\* caller's dicts
EnsBuildAdapterInPlace ==
    /\ pc = "adapt_loop"
    /\ LET i == Cardinality(Adapted(ldatasets)) + 1
           ds == ldatasets[i]
       IN  /\ ldatasets' = [ldatasets EXCEPT ![i] =
                  [setpt_func |-> create_interp_func(nextid, ds.t, ds.setpt),
                   disable_func |-> create_interp_func(nextid + 1, ds.t, ds.disable)] @@ ds]
           /\ pc' = IF i = Len(ldatasets) THEN "search" ELSE "adapt_loop"
    /\ datasets' = ldatasets'
    /\ nextid' = nextid + 2
    /\ UNCHANGED <<entry, controller, disp_cost, bounds, xarg, seed, ncall, optvars, histvars,
                   lbounds, lparam, adapters, result, err, steps>>
    /\ UNCHANGED ctlvars

\* ensemble_fit_controller, lines 71-73: one pass of the loop over _datasets
EnsBuildAdapter ==
    /\ pc = "adapt_loop"
    /\ LET i == Cardinality(Adapted(ldatasets)) + 1
           ds == ldatasets[i]
       IN  /\ ldatasets' = [ldatasets EXCEPT ![i] =
                  [setpt_func |-> create_interp_func(nextid, ds.t, ds.setpt),
                   disable_func |-> create_interp_func(nextid + 1, ds.t, ds.disable)] @@ ds]
           /\ pc' = IF i = Len(ldatasets) THEN "search" ELSE "adapt_loop"
    /\ nextid' = nextid + 2
    /\ UNCHANGED <<argvars, optvars, histvars, lbounds, lparam, adapters, result, err, steps>>
    /\ UNCHANGED ctlvars

\* A faulty start: the optimizer is called inside the loop that builds the adapters
StartSearchEarly ==
    /\ pc \in {"search", "adapt_loop"}
    /\ pop' = InitPop(seed, lbounds)
    /\ popcost' = [i \in 1..PopSize |-> NoCost]
    /\ gen' = 0
    /\ steps' = Append(steps, "search")
    /\ pc' = "evaluate"
    /\ UNCHANGED <<argvars, histvars, lbounds, lparam, ldatasets, adapters, nextid,
                   trial, trialcost, best, result, err>>
    /\ UNCHANGED ctlvars

\* Lines 263-273 / 75-85: differential_evolution is called and draws its
\* initial population
StartSearch ==
    /\ pc = "search"
    /\ pop' = InitPop(seed, lbounds)
    /\ popcost' = [i \in 1..PopSize |-> NoCost]
    /\ gen' = 0
    /\ steps' = Append(steps, "search")
    /\ pc' = "evaluate"
    /\ UNCHANGED <<argvars, histvars, lbounds, lparam, ldatasets, adapters, nextid,
                   trial, trialcost, best, result, err>>
    /\ UNCHANGED ctlvars

\* The cost function and arguments each fitting function gives the optimizer
Objective(x) ==
    IF entry = "fit_controller"
    THEN cost_func(x, datasets[1].t, datasets[1].omega, adapters.setpt_func,
                  adapters.disable_func, disp_cost, controller)
    ELSE ensemble_cost_func(x, ldatasets, disp_cost, controller)

\* The population as the trials evaluated so far would update it
UpdatedPop ==
    [j \in 1..PopSize |->
        IF ~IsNothing(trialcost[j]) /\ RatLeq(trialcost[j], popcost[j]) THEN trial[j] ELSE pop[j]]

UpdatedCost ==
    [j \in 1..PopSize |->
        IF ~IsNothing(trialcost[j]) /\ RatLeq(trialcost[j], popcost[j])
        THEN trialcost[j] ELSE popcost[j]]

\* A faulty search, updating='immediate': the trial of member i is built from
\* the population as the trials already evaluated have updated it
CandidateImmediate(i) ==
    IF gen = 0 THEN pop[i]
    ELSE TrialPop(seed, gen, UpdatedPop, UpdatedCost, lbounds)[i]

\* The vector of member i in the generation being evaluated
Candidate(i) == IF gen = 0 THEN pop[i] ELSE trial[i]

\* The optimizer takes the outcome r of evaluating member i, the vector x
Evaluated(i, x, r) ==
    /\ Outcome(x, r)
    /\ IF r.status = NoError
       THEN /\ popcost' = IF gen = 0 THEN [popcost EXCEPT ![i] = r.cost] ELSE popcost
            /\ trialcost' = IF gen = 0 THEN trialcost ELSE [trialcost EXCEPT ![i] = r.cost]
            /\ UNCHANGED <<pc, err>>
       ELSE /\ pc' = "raised"
            /\ err' = r.status
            /\ UNCHANGED <<popcost, trialcost>>

\* A worker evaluates member i of the generation being evaluated; an exception
\* of the cost function ends the optimizer and the fitting call
Evaluate(i) ==
    /\ pc = "evaluate"
    /\ IF gen = 0 THEN IsNothing(popcost[i]) ELSE IsNothing(trialcost[i])
    /\ Evaluated(i, Candidate(i), Objective(Candidate(i)))
    /\ UNCHANGED <<argvars, lbounds, lparam, ldatasets, adapters, nextid, gen, pop,
                   trial, best, result, steps>>
    /\ UNCHANGED ctlvars

\* Every member of the generation being evaluated has its cost
GenerationEvaluated ==
    \A i \in 1..PopSize :
        IF gen = 0 THEN ~IsNothing(popcost[i]) ELSE ~IsNothing(trialcost[i])

\* The population once the evaluated generation has been selected into it
SelectedPop == IF gen = 0 THEN pop ELSE SelectPop(pop, popcost, trial, trialcost)
SelectedCost == IF gen = 0 THEN popcost ELSE SelectCost(popcost, trialcost)

\* Deferred updating: once the whole generation is evaluated, selection, then the
\* trial vectors of the next generation
NextGeneration ==
    /\ pc = "evaluate" /\ GenerationEvaluated /\ gen < MaxGen
    /\ pop' = SelectedPop
    /\ popcost' = SelectedCost
    /\ trial' = TrialPop(seed, gen + 1, SelectedPop, SelectedCost, lbounds)
    /\ trialcost' = [i \in 1..PopSize |-> NoCost]
    /\ gen' = gen + 1
    /\ UNCHANGED <<argvars, histvars, pc, lbounds, lparam, ldatasets, adapters, nextid,
                   best, result, err, steps>>
    /\ UNCHANGED ctlvars

\* The last generation is selected and differential_evolution returns; results.x
\* is the best member, not polished
FinishSearch ==
    /\ pc = "evaluate" /\ GenerationEvaluated /\ gen = MaxGen
    /\ pop' = SelectedPop
    /\ popcost' = SelectedCost
    /\ best' = SelectedPop[BestIndex(SelectedCost)]
    /\ pc' = "unpack"
    /\ UNCHANGED <<argvars, histvars, lbounds, lparam, ldatasets, adapters, nextid, gen,
                   trial, trialcost, result, err, steps>>
    /\ UNCHANGED ctlvars

\* Lines 276-305 / 88-111: the match on controller builds param from results.x
Unpack ==
    /\ pc = "unpack"
    /\ LET prm == IF entry = "fit_controller"
                  THEN FitUnpack(best, adapters.setpt_func, adapters.disable_func, controller)
                  ELSE EnsFitUnpack(best, controller)
       IN  IF IsNothing(prm)
           THEN /\ pc' = "raised" /\ err' = "ValueError" /\ UNCHANGED <<lparam, steps>>
           ELSE /\ lparam' = prm
                /\ steps' = Append(steps, "unpack")
                /\ pc' = "return"
                /\ err' = err
    /\ UNCHANGED <<argvars, optvars, histvars, lbounds, ldatasets, adapters, nextid, result>>
    /\ UNCHANGED ctlvars

\* Lines 307 / 113: return param
Return ==
    /\ pc = "return"
    /\ result' = lparam
    /\ steps' = Append(steps, "return")
    /\ pc' = "done"
    /\ UNCHANGED <<argvars, optvars, histvars, lbounds, lparam, ldatasets, adapters,
                   nextid, err>>
    /\ UNCHANGED ctlvars

\* The caller calls the same fitting function again, with the same arguments:
\* the locals of the new call are unbound, its generator is in some state
CallAgain ==
    /\ pc \in {"done", "raised"} /\ entry \in FitEntries
    /\ ncall < MaxCalls
    /\ ncall' = ncall + 1
    /\ seed' \in 0..MaxSeed
    /\ pc' = "call"
    /\ lbounds' = Nothing /\ lparam' = Nothing /\ ldatasets' = Nothing /\ adapters' = Nothing
    /\ nextid' = FirstId(datasets)
    /\ gen' = 0 /\ pop' = Nothing /\ popcost' = Nothing
    /\ trial' = Nothing /\ trialcost' = Nothing /\ best' = Nothing
    /\ result' = Nothing /\ err' = NoError /\ steps' = <<>>
    /\ nsolve' = 0 /\ nprinted' = 0 /\ evals' = <<>> /\ lastx' = Nothing
    /\ UNCHANGED <<entry, controller, disp_cost, bounds, datasets, xarg>>
    /\ UNCHANGED ctlvars

-----------------------------------------------------------------------------
(* A cost function call, statement by statement, with a solver that may give  *)
(* up: cost_func lines 353-390, ensemble_cost_func lines 147-184              *)

\* The candidate vectors of these calls
SimVectors(ctrl) == {[k \in 1..VectorLen(ctrl) |-> g] : g \in {0, MaxGain}}

\* The longest t of the datasets
LongestT == CHOOSE n \in {Len(d.t) : d \in DatasetPool} : \A d \in DatasetPool : Len(d.t) <= n

\* The points of t_eval the solver may get to in each simulation of the call
ReachedLists(dsets) ==
    {r \in [1..Len(dsets) -> 0..LongestT] : \A k \in 1..Len(dsets) : r[k] <= Len(dsets[k].t)}

\* The caller's arguments, and what the solver will do
SimInitVars ==
    /\ entry \in CostEntries
    /\ controller \in ControllerNames
    /\ disp_cost \in BOOLEAN
    /\ bounds = Nothing
    /\ seed = 0
    /\ ncall = 1
    /\ datasets \in
         (IF entry = "cost_func" THEN {WithAdapters(<<d>>) : d \in DatasetPool}
          ELSE {WithAdapters(l) : l \in DatasetLists(MaxDatasets)})
    /\ xarg \in SimVectors(controller)
    /\ adapters = (IF entry = "cost_func"
                   THEN [setpt_func |-> datasets[1].setpt_func,
                         disable_func |-> datasets[1].disable_func]
                   ELSE Nothing)
    /\ nextid = FirstId(datasets)
    /\ pc = "call"
    /\ lbounds = Nothing /\ lparam = Nothing /\ ldatasets = Nothing
    /\ gen = 0 /\ pop = Nothing /\ popcost = Nothing
    /\ trial = Nothing /\ trialcost = Nothing /\ best = Nothing
    /\ result = Nothing /\ err = NoError /\ steps = <<>>
    /\ nsolve = 0 /\ nprinted = 0 /\ evals = <<>> /\ lastx = Nothing
    /\ reached \in ReachedLists(datasets)
    /\ ivp = <<>> /\ yret = <<>>
    /\ itp = <<>> /\ query = <<>> /\ answer = <<>>
    /\ paramA = <<>> /\ paramB = <<>> /\ ctlA = <<>> /\ ctlB = <<>>
    /\ yA = <<0, 0>> /\ yB = <<0, 0>> /\ tnow = 0 /\ nstep = 0
    /\ setptA = 0 /\ setptB = 0 /\ calls = <<>> /\ diag = <<>>

simframe == <<argvars, optvars, lbounds, ldatasets, adapters, nextid, steps, reached,
              paramA, paramB, ctlA, ctlB, yA, yB, tnow, nstep, setptA, setptB, calls, diag,
              sigvars>>

\* The match has built param, or raised ValueError for want of a case
Matched(param) ==
    /\ lparam' = param
    /\ err' = IF IsNothing(param) THEN "ValueError" ELSE err
    /\ pc' = IF IsNothing(param) THEN "raised"
             ELSE IF Len(datasets) = 0 THEN "finish" ELSE "solve"

\* Lines 353-382 / 147-170: the match on controller builds param from x
SimMatch ==
    /\ pc = "call"
    /\ Matched(IF entry = "cost_func"
               THEN CostParam(xarg, adapters.setpt_func, adapters.disable_func, controller)
               ELSE EnsCostParam(xarg, controller))
    /\ lastx' = xarg
    /\ UNCHANGED <<simframe, result, nsolve, nprinted, evals, ivp, yret>>

\* The dataset of the simulation the call is at
SimDataset == datasets[Len(evals) + 1]

\* Lines 174-175: param['setpt'] = ds['setpt_func']; param['disable'] = ds['disable_func']
Rebound(param, ds) ==
    IF entry = "cost_func" THEN param
    ELSE [k \in DOMAIN param \cup {"setpt", "disable"} |->
             CASE k = "setpt" -> ds.setpt_func
               [] k = "disable" -> ds.disable_func
               [] OTHER -> param[k]]

\* solve has returned what the OdeResult res holds
Solved(param, res) ==
    /\ lparam' = param
    /\ ivp' = res
    /\ yret' = solve_returns(res)

\* Lines 384-385 / 174-177: ctlr = LPIController(param); y = ctlr.solve(t, method='RK23')
SimSolve ==
    /\ pc = "solve"
    /\ Solved(Rebound(lparam, SimDataset),
              solve_ivp(LPIController(Rebound(lparam, SimDataset)), SimDataset.t, <<0, 0>>,
                        reached[Len(evals) + 1]))
    /\ nsolve' = nsolve + 1
    /\ pc' = "cost"
    /\ UNCHANGED <<simframe, result, err, nprinted, evals, lastx>>

\* numpy broadcasting of a one-element array against an array of n elements
Broadcast(a, n) == IF Len(a) = n THEN a ELSE [i \in 1..n |-> a[1]]

Longer(a, b) == IF Len(a) >= Len(b) THEN Len(a) ELSE Len(b)

\* Lines 386-387 / 178-179: omega_fit = y[0]; cost = np.sum((omega_fit - omega)**2)
\* / omega.shape[0].  y[0] of the empty list raises IndexError; arrays of unequal
\* lengths, neither of them 1, do not broadcast and raise ValueError.
CostLines(y, omega) ==
    IF IsNothing(y)
    THEN [status |-> "IndexError", omega_fit |-> <<>>, cost |-> Nothing]
    ELSE IF Len(y) # Len(omega) /\ Len(y) # 1 /\ Len(omega) # 1
    THEN [status |-> "ValueError", omega_fit |-> Omega(y), cost |-> Nothing]
    ELSE [status |-> NoError, omega_fit |-> Omega(y),
          cost |-> <<SumSq(Broadcast(Omega(y), Longer(y, omega)),
                           Broadcast(omega, Longer(y, omega))), Len(omega)>>]

\* The cost lines have run with outcome c
Costed(c) ==
    IF c.status = NoError
    THEN /\ evals' = Append(evals, [param |-> lparam, t |-> SimDataset.t,
                                    omega |-> SimDataset.omega, omega_fit |-> c.omega_fit,
                                    cost |-> c.cost])
         /\ pc' = IF Len(evals) + 1 < Len(datasets) THEN "solve" ELSE "finish"
         /\ err' = err
    ELSE /\ evals' = evals
         /\ pc' = "raised"
         /\ err' = c.status

SimCostLines ==
    /\ pc = "cost"
    /\ Costed(CostLines(yret, SimDataset.omega))
    /\ UNCHANGED <<simframe, lparam, result, nsolve, nprinted, lastx, ivp, yret>>

\* The call returns, or its last lines raise
Finished(r) ==
    /\ result' = r.cost
    /\ err' = r.status
    /\ nprinted' = nprinted + Len(r.printed)
    /\ pc' = IF r.status = NoError THEN "done" ELSE "raised"

\* Lines 388-390 / 181-184: print and return
SimFinish ==
    /\ pc = "finish"
    /\ Finished(IF entry = "cost_func" THEN cost_func_return(evals[1], disp_cost)
                ELSE ensemble_cost_func_return(evals, Len(datasets), disp_cost))
    /\ UNCHANGED <<simframe, lparam, nsolve, evals, lastx, ivp, yret>>

-----------------------------------------------------------------------------
(* The adapter in floating point: scipy.interpolate.interp1d(t, data,         *)
(* fill_value='extrapolate'), linear.  Every operation rounds its result to   *)
(* the nearest number of SignificandBits significant bits, ties to even, as   *)
(* IEEE arithmetic does; a number is the fraction <<num, den>>.  The          *)
(* program's numbers carry 53 bits.                                           *)

RECURSIVE Pow2(_)
Pow2(k) == IF k = 0 THEN 1 ELSE 2 * Pow2(k - 1)

\* The same number with the common factors 2 taken out
RECURSIVE Reduced(_)
Reduced(r) ==
    IF r[1] # 0 /\ r[1] % 2 = 0 /\ r[2] % 2 = 0
    THEN Reduced(<<r[1] \div 2, r[2] \div 2>>)
    ELSE r

\* The integer nearest q/d, ties to the even one (q >= 0, d > 0)
RoundHalfEven(q, d) ==
    IF 2 * (q % d) > d THEN (q \div d) + 1
    ELSE IF 2 * (q % d) = d THEN (q \div d) + ((q \div d) % 2)
    ELSE q \div d

\* The least shift k that brings a/d * 2^k up to SignificandBits bits
RECURSIVE ShiftUp(_, _, _)
ShiftUp(a, d, k) ==
    IF a * Pow2(k) >= d * Pow2(SignificandBits - 1) THEN k ELSE ShiftUp(a, d, k + 1)

\* The least shift k that brings a/d / 2^k down to SignificandBits bits
RECURSIVE ShiftDown(_, _, _)
ShiftDown(a, d, k) ==
    IF a < d * Pow2(SignificandBits + k) THEN k ELSE ShiftDown(a, d, k + 1)

RoundedUp(a, d, k) == Reduced(<<RoundHalfEven(a * Pow2(k), d), Pow2(k)>>)

RoundedDown(a, d, k) == <<RoundHalfEven(a, d * Pow2(k)) * Pow2(k), 1>>

\* The floating-point number nearest a/d (a > 0, d > 0)
FlPos(a, d) ==
    IF a >= d * Pow2(SignificandBits)
    THEN RoundedDown(a, d, ShiftDown(a, d, 1))
    ELSE RoundedUp(a, d, ShiftUp(a, d, 0))

Neg(r) == <<-r[1], r[2]>>

\* The floating-point number nearest r
Fl(r) ==
    IF r[1] = 0 THEN <<0, 1>>
    ELSE IF r[1] > 0 THEN FlPos(r[1], r[2])
    ELSE Neg(FlPos(-r[1], r[2]))

\* The floating-point operations
FAdd(a, b) == Fl(Reduced(RatAdd(a, b)))
FSub(a, b) == Fl(Reduced(RatAdd(a, Neg(b))))
FMul(a, b) == Fl(Reduced(<<a[1] * b[1], a[2] * b[2]>>))
FDiv(a, b) ==
    Fl(Reduced(IF b[1] > 0 THEN <<a[1] * b[2], a[2] * b[1]>>
               ELSE <<-(a[1] * b[2]), -(a[2] * b[1])>>))

\* A number of the program's input arrays
Num(n) == <<n, 1>>

\* interp1d._call_linear on the segment whose lower node is lo:
\* slope = (y_hi - y_lo) / (x_hi - x_lo); y_new = slope*(x_new - x_lo) + y_lo
call_linear(sig, lo, x_new) ==
    FAdd(FMul(FDiv(FSub(Num(sig.v[lo + 1]), Num(sig.v[lo])),
                   FSub(Num(sig.t[lo + 1]), Num(sig.t[lo]))),
              FSub(Num(x_new), Num(sig.t[lo]))),
         Num(sig.v[lo]))

\* interp_func(x_new): the adapter called with a time
interp_func(sig, x_new) == call_linear(sig, InterpLo(sig.t, x_new), x_new)

\* Sample times, strictly increasing: the grid of the datasets, and uneven ones
InterpTimes == {<<0, 2, 4>>, <<0, 49>>, <<1, 3, 52>>}

\* Sample values: flags and set points
InterpValues == 0..(MaxGain + 1)

\* The times the adapter is called with: before, at, between and after the samples
QueryTimes == ((-2)..6) \cup {25} \cup (48..54)

\* create_interp_func(t, data) has returned an adapter
InterpInitVars ==
    /\ \E t \in InterpTimes : \E data \in [1..Len(t) -> InterpValues] :
          itp = create_interp_func(1, t, data)
    /\ query = <<>>
    /\ answer = <<>>
    /\ paramA = <<>> /\ paramB = <<>> /\ ctlA = <<>> /\ ctlB = <<>>
    /\ yA = <<0, 0>> /\ yB = <<0, 0>> /\ tnow = 0 /\ nstep = 0
    /\ setptA = 0 /\ setptB = 0 /\ calls = <<>> /\ diag = <<>>
    /\ reached = <<>> /\ ivp = <<>> /\ yret = <<>>

\* The adapter is called with x_new
InterpCall ==
    /\ \E x_new \in QueryTimes :
          /\ query' = x_new
          /\ answer' = interp_func(itp, x_new)
    /\ UNCHANGED <<itp, paramA, paramB, ctlA, ctlB, yA, yB, tnow, nstep, setptA, setptB,
                   calls, diag, solvevars>>

-----------------------------------------------------------------------------
(* Specifications *)

\* The calls into model_fitting.py
Init == FitInitVars /\ IdleCtl

Next ==
    \/ CostFuncCall
    \/ EnsembleCostFuncCall
    \/ Validate
    \/ FitBuildAdapters
    \/ EnsCopyDatasets
    \/ EnsBuildAdapter
    \/ StartSearch
    \/ \E i \in 1..PopSize : Evaluate(i)
    \/ NextGeneration
    \/ FinishSearch
    \/ Unpack
    \/ Return
    \/ CallAgain

Spec == Init /\ [][Next]_vars

\* The controller pair
CtlInit == IdleFit /\ CtlInitVars

CtlNext == CtlStep /\ UNCHANGED fitvars

CtlSpec == CtlInit /\ [][CtlNext]_vars

\* The diagnostics of one controller
DiagInit == IdleFit /\ DiagInitVars

DiagNext ==
    /\ \/ GetDeterminant
       \/ GetTrace
       \/ GetDiscriminant
       \/ GetEigenvalues
    /\ UNCHANGED fitvars

DiagSpec == DiagInit /\ [][DiagNext]_vars

\* A cost function call with a solver that may give up
SimInit == SimInitVars

SimNext ==
    \/ SimMatch
    \/ SimSolve
    \/ SimCostLines
    \/ SimFinish

SimSpec == SimInit /\ [][SimNext]_vars

\* An adapter being queried
InterpInit == IdleFit /\ InterpInitVars

InterpNext == InterpCall /\ UNCHANGED fitvars

InterpSpec == InterpInit /\ [][InterpNext]_vars

-----------------------------------------------------------------------------
(* Properties *)

Variants == {"p", "pi", "lpi"}

\* The canonical order of the gains
Canon == <<"dcoef", "pgain", "igain", "ileak">>

Range(f) == {f[i] : i \in DOMAIN f}

\* Number of adapters the call itself has created
AdaptersCreated == (nextid - FirstId(datasets)) \div 2

\* C1: for a controller name outside {p, pi, lpi} each of fit_controller,
\* ensemble_fit_controller, cost_func and ensemble_cost_func raises ValueError
\* (the program's invalid-configuration error), and does so before any adapter
\* is built, before the optimizer is called and before any simulation is run.
C1_UnknownVariantFailsFast ==
    controller \notin Variants =>
        /\ pc \in {"call", "raised"}
        /\ pc = "call" => err = NoError
        /\ pc = "raised" => err = "ValueError"
        /\ AdaptersCreated = 0
        /\ IsNothing(ldatasets)
        /\ "search" \notin Range(steps)
        /\ IsNothing(pop)
        /\ nsolve = 0
        /\ evals = <<>>
        /\ IsNothing(result)

C1_Witness ==
    /\ controller = "pid"
    /\ entry = "ensemble_cost_func"
    /\ Len(datasets) = 2
    /\ pc = "raised"
    /\ err = "ValueError"

\* The same call with cost logging off
QuietCall ==
    IF entry = "cost_func"
    THEN cost_func(xarg, datasets[1].t, datasets[1].omega, adapters.setpt_func,
                  adapters.disable_func, FALSE, controller)
    ELSE ensemble_cost_func(xarg, datasets, FALSE, controller)

\* C2: cost logging does not affect the returned value: a call of cost_func or
\* ensemble_cost_func with disp_cost on ends as the same call with disp_cost off
\* does, with the same cost.
C2_LoggingDoesNotChangeResult ==
    (entry \in CostEntries /\ pc \in {"done", "raised"}) =>
        /\ err = QuietCall.status
        /\ result = QuietCall.cost

\* A parameter set holds all four gains, with the gains its variant does not use at 0
UnusedGainsZero(p) ==
    /\ GainKeys \subseteq DOMAIN p
    /\ controller = "p" => (p["igain"] = 0 /\ p["ileak"] = 0)
    /\ controller = "pi" => p["ileak"] = 0

\* C3: every parameter set the cost functions simulate and every parameter set
\* a fitting function builds and returns holds all four gains, with igain = 0
\* and ileak = 0 for variant p and ileak = 0 for variant pi, whatever bounds
\* were given for igain and ileak.
C3_UnusedGainsForcedToZero ==
    /\ \A i \in 1..Len(evals) : UnusedGainsZero(evals[i].param)
    /\ ~IsNothing(lparam) => UnusedGainsZero(lparam)
    /\ (entry \in FitEntries /\ pc = "done") => UnusedGainsZero(result)

C3_Witness ==
    /\ entry = "fit_controller"
    /\ controller = "p"
    /\ pc = "done"
    /\ "igain" \in DOMAIN bounds
    /\ bounds["igain"][1] > 0
    /\ bounds["ileak"][1] > 0
    /\ result["igain"] = 0
    /\ result["ileak"] = 0
    /\ result["pgain"] > 0

\* The vector x is unpacked into p in canonical order, for the n gains the variant uses
UnpackedInOrder(x, p, n) == \A k \in 1..n : p[Canon[k]] = x[k]

\* The caller's interval for gain k holds the value p has for it
InsideBounds(p, k) ==
    /\ bounds[Canon[k]][1] <= p[Canon[k]]
    /\ p[Canon[k]] <= bounds[Canon[k]][2]

\* C4 as stated: bound construction and vector unpacking agree for p, pi and
\* lpi (the bound list has length 2, 3, 4 and holds the caller's bounds for
\* dcoef, pgain, igain, ileak in that order; entry k of the candidate vector and
\* of the best vector becomes the gain whose bound is at position k), so each
\* named gain of a returned fit lies inside the caller's interval for its name.
C4_EveryGainInsideItsBounds ==
    (controller \in Variants /\ entry \in FitEntries /\ pc = "done") =>
        \A k \in 1..Len(Canon) : Canon[k] \in DOMAIN bounds => InsideBounds(result, k)

\* C4, amended: bound construction and vector unpacking agree for p, pi and lpi:
\* the bound list has length 2, 3, 4 and holds the caller's bounds for dcoef,
\* pgain, igain, ileak in that order; entry k of the candidate vector (in both
\* cost functions) and of the optimizer's best vector (in both fitting
\* functions) becomes the gain whose bound is at position k; so each gain the
\* variant searches lies, in a returned fit, inside the caller's interval for
\* its name (a gain forced to 0 need not).
C4_BoundsAndUnpackingAgree ==
    controller \in Variants =>
        LET n == VectorLen(controller)
        IN  /\ ~IsNothing(lbounds) =>
                 /\ Len(lbounds) = n
                 /\ \A k \in 1..n : lbounds[k] = bounds[Canon[k]]
            /\ \A i \in 1..Len(evals) : UnpackedInOrder(lastx, evals[i].param, n)
            /\ ~IsNothing(lparam) => UnpackedInOrder(best, lparam, n)
            /\ (entry \in FitEntries /\ pc = "done") =>
                 \A k \in 1..n : InsideBounds(result, k)

C4_Witness ==
    /\ entry = "ensemble_fit_controller"
    /\ controller = "lpi"
    /\ pc = "done"
    /\ bounds["dcoef"] # bounds["pgain"]
    /\ bounds["igain"] # bounds["dcoef"]
    /\ Len(datasets) = 2
    /\ result["dcoef"] # result["pgain"]

\* The steps of a fitting call in their order
FitSteps == <<"validate", "bounds", "adapters", "search", "unpack", "return">>

\* Every dataset of the call has its two adapters
AllAdaptersBuilt ==
    IF entry = "fit_controller"
    THEN ~IsNothing(adapters) /\ AdaptersCreated = 1
    ELSE /\ Len(ldatasets) = Len(datasets)
         /\ Adapted(ldatasets) = 1..Len(datasets)
         /\ AdaptersCreated = Len(datasets)

\* C5: a fitting call takes its steps in the order validate, build bounds,
\* build adapters, search, unpack, return and in no other: the optimizer is not
\* started before every dataset has its adapters, the best vector is unpacked
\* only after the search has finished, a call that fails validation reaches no
\* later step, and a call that returns has taken all six.
C5_FitStepsInOrder ==
    entry \in FitEntries =>
        /\ Len(steps) <= Len(FitSteps)
        /\ \A i \in 1..Len(steps) : steps[i] = FitSteps[i]
        /\ "search" \in Range(steps) => AllAdaptersBuilt
        /\ "unpack" \in Range(steps) =>
             /\ ~IsNothing(best)
             /\ gen = MaxGen
             /\ GenerationEvaluated
        /\ (pc = "raised" /\ "bounds" \notin Range(steps)) =>
             /\ steps = <<"validate">>
             /\ AdaptersCreated = 0
             /\ IsNothing(pop)
             /\ nsolve = 0
             /\ IsNothing(lparam)
             /\ IsNothing(result)
        /\ pc = "done" => steps = FitSteps
        /\ ~IsNothing(result) => pc = "done"

C5_Witness ==
    /\ entry = "ensemble_fit_controller"
    /\ Len(datasets) = 2
    /\ pc = "done"
    /\ steps = FitSteps

AloneCost(k) ==
    cost_func(xarg, datasets[k].t, datasets[k].omega, datasets[k].setpt_func,
             datasets[k].disable_func, disp_cost, controller).cost

\* The sum of the first k of them
RECURSIVE AloneTotal(_)
AloneTotal(k) == IF k = 0 THEN <<0, 1>> ELSE RatAdd(AloneTotal(k - 1), AloneCost(k))

\* C9: for every non-empty list of datasets, candidate vector and variant,
\* ensemble_cost_func returns the arithmetic mean of the costs cost_func returns
\* for each dataset alone (same vector, same variant, that dataset's adapters).
C9_EnsembleCostIsMean ==
    (/\ entry = "ensemble_cost_func"
     /\ pc \in {"done", "raised"}
     /\ controller \in Variants
     /\ Len(datasets) > 0) =>
        /\ pc = "done"
        /\ RatEq(result, RatDivInt(AloneTotal(Len(datasets)), Len(datasets)))

\* What remains of C9 with cost logging off: the mean is returned
C9_MeanWhenQuiet ==
    (/\ entry = "ensemble_cost_func"
     /\ pc \in {"done", "raised"}
     /\ controller \in Variants
     /\ Len(datasets) > 0
     /\ ~disp_cost) =>
        /\ pc = "done"
        /\ RatEq(result, RatDivInt(AloneTotal(Len(datasets)), Len(datasets)))
        /\ Len(datasets) = 1 => RatEq(result, AloneCost(1))

\* sum((omega_fit - omega)^2) over the samples
SquaredError(e) ==
    LET S[k \in 0..Len(e.omega)] ==
            IF k = 0 THEN 0
            ELSE S[k - 1] + (e.omega_fit[k] - e.omega[k]) * (e.omega_fit[k] - e.omega[k])
    IN  S[Len(e.omega)]

AlwaysDisabled(sig) == \A q \in Ticks : Truthy(sig, q)

\* C7: when the disable signal is true at every time, two controllers started
\* from the same state with the same dcoef and ileak are in the same state after
\* every number of solver steps, whatever their pgain, igain and set-point
\* signals, and neither set-point signal is ever evaluated.
C7_DisabledIgnoresFeedback ==
    (/\ AlwaysDisabled(ctlA.disable)
     /\ AlwaysDisabled(ctlB.disable)
     /\ ctlA.dcoef = ctlB.dcoef
     /\ ctlA.ileak = ctlB.ileak) =>
        /\ yA = yB
        /\ setptA = 0
        /\ setptB = 0

C7_Witness ==
    /\ AlwaysDisabled(ctlA.disable)
    /\ ctlA.dcoef = ctlB.dcoef
    /\ ctlA.ileak = ctlB.ileak
    /\ ctlA.pgain # ctlB.pgain
    /\ ctlA.igain # ctlB.igain
    /\ ctlA.setpt # ctlB.setpt
    /\ nstep = MaxSteps
    /\ yA = yB
    /\ yA[1] # 0
    /\ yA[1] # 1

\* The derivative the controller built from param has at time t in state y
DisabledDy(param, y) ==
    <<-param["dcoef"] * y[1] + y[2], -param["ileak"] * y[2]>>

EnabledDy(param, t, y) ==
    <<-param["dcoef"] * y[1] + y[2] + param["pgain"] * (SigVal(param["setpt"], t) - y[1]),
      -param["ileak"] * y[2] + param["igain"] * (SigVal(param["setpt"], t) - y[1])>>

\* C8: state_func returns dy0 = -dcoef*y0 + y1, dy1 = -ileak*y1 where disable(t)
\* is true, and with err = setpoint(t) - y0 returns dy0 = -dcoef*y0 + y1 +
\* pgain*err, dy1 = -ileak*y1 + igain*err where it is not; a parameter set with
\* no disable entry gets the constant-false signal and so always the second.
C8_StateFuncFormula ==
    \A i \in 1..Len(calls) :
        /\ "disable" \in DOMAIN paramA =>
             calls[i].dy = IF Truthy(paramA["disable"], calls[i].t)
                           THEN DisabledDy(paramA, calls[i].y)
                           ELSE EnabledDy(paramA, calls[i].t, calls[i].y)
        /\ "disable" \notin DOMAIN paramA =>
             /\ ctlA.disable = false_func
             /\ calls[i].dy = EnabledDy(paramA, calls[i].t, calls[i].y)

C8_Witness ==
    /\ "disable" \notin DOMAIN paramA
    /\ nstep = MaxSteps
    /\ paramA["igain"] > 0
    /\ paramA["pgain"] > 0
    /\ paramA["ileak"] > 0
    /\ calls[2].dy[1] # 0
    /\ calls[2].dy[2] # 0
    /\ calls[2].dy # DisabledDy(paramA, calls[2].y)

\* Trace and determinant of a 2x2 matrix given by rows
Tr(A) == A[1][1] + A[2][2]
Det(A) == A[1][1] * A[2][2] - A[1][2] * A[2][1]

\* C11: get_trace returns -(pgain+dcoef+ileak) and get_determinant returns
\* ileak*(pgain+dcoef) + igain, which are the trace and the determinant of the
\* matrix get_eigenvalues uses, [[-(pgain+dcoef), 1], [-igain, -ileak]]; and
\* get_discriminant is get_trace squared minus 4 times get_determinant; every
\* value depends on the four gains alone, and however many diagnostics have
\* been called the controller and its state are as they were built.
C11_DiagnosticsOfTheSystemMatrix ==
    LET A == <<<<-(paramA["pgain"] + paramA["dcoef"]), 1>>,
               <<-paramA["igain"], -paramA["ileak"]>>>>
    IN  /\ "get_trace" \in DOMAIN diag =>
             /\ diag["get_trace"] = -(paramA["pgain"] + paramA["dcoef"] + paramA["ileak"])
             /\ diag["get_trace"] = Tr(A)
        /\ "get_determinant" \in DOMAIN diag =>
             /\ diag["get_determinant"] =
                    paramA["ileak"] * (paramA["pgain"] + paramA["dcoef"]) + paramA["igain"]
             /\ diag["get_determinant"] = Det(A)
        /\ "get_eigenvalues" \in DOMAIN diag => diag["get_eigenvalues"] = A
        /\ "get_discriminant" \in DOMAIN diag =>
             diag["get_discriminant"] = Tr(A) * Tr(A) - 4 * Det(A)
        /\ {"get_trace", "get_determinant", "get_discriminant"} \subseteq DOMAIN diag =>
             diag["get_discriminant"] =
                diag["get_trace"] * diag["get_trace"] - 4 * diag["get_determinant"]
        /\ ctlA = LPIController(paramA)
        /\ yA \in InitialStates
        /\ nstep = 0
        /\ setptA = 0

C11_Witness ==
    /\ DOMAIN diag = Diagnostics
    /\ diag["get_discriminant"] < 0
    /\ diag["get_determinant"] > 1
    /\ diag["get_trace"] < -1
    /\ paramA["dcoef"] # paramA["pgain"]
    /\ yA # <<0, 0>>

\* The keys of bounds the variant's match reads
RequiredKeys(ctrl) == {Canon[k] : k \in 1..VectorLen(ctrl)}

\* The call failed in its first statement, having done nothing else
FailedAtValidation ==
    /\ pc = "raised"
    /\ steps = <<"validate">>
    /\ IsNothing(lbounds)
    /\ AdaptersCreated = 0
    /\ IsNothing(ldatasets)
    /\ IsNothing(pop)
    /\ nsolve = 0
    /\ IsNothing(result)

\* C12: when bounds lacks a key the variant requires (dcoef, pgain for p; plus
\* igain for pi; plus ileak for lpi), fit_controller and ensemble_fit_controller
\* fail with the invalid-configuration error (ValueError, as for an unknown
\* variant) before any adapter is built or the optimizer is called; a bounds
\* dict that lacks only keys the variant does not use is accepted.
C12_MissingBoundsKeyIsConfigurationError ==
    (entry \in FitEntries /\ controller \in Variants /\ pc # "call") =>
        IF RequiredKeys(controller) \subseteq DOMAIN bounds
        THEN "bounds" \in Range(steps)
        ELSE FailedAtValidation /\ err = "ValueError"

\* What holds of a missing key: the call fails at once, with the KeyError of
\* the dict lookup
C12_MissingBoundsKeyFailsFast ==
    (entry \in FitEntries /\ controller \in Variants /\ pc # "call") =>
        IF RequiredKeys(controller) \subseteq DOMAIN bounds
        THEN "bounds" \in Range(steps)
        ELSE FailedAtValidation /\ err = "KeyError"

\* The solver integrated every simulation of the call to the end
AllIntegrated == \A k \in 1..Len(datasets) : reached[k] = Len(datasets[k].t)

\* With a solver that never gives up the statements of a cost function call
\* end as cost_func and ensemble_cost_func do
StatementsAgreeWithCall ==
    (AllIntegrated /\ pc \in {"done", "raised"}) =>
        /\ err = QuietCall.status \/ disp_cost
        /\ ~disp_cost => result = QuietCall.cost
        /\ evals = QuietCall.sims

\* C13: when solve_ivp reports that it failed to integrate over the interval,
\* LPIController.solve raises IntegrationError instead of returning a (possibly
\* truncated) trajectory; the error goes through cost_func / ensemble_cost_func,
\* so no cost is produced for the candidate, and an ensemble returns no averaged
\* cost when the simulation of any one dataset fails.
C13_SolverFailureRaisesIntegrationError ==
    (~IsNothing(ivp) /\ ~ivp.success) =>
        /\ pc = "raised"
        /\ err = "IntegrationError"
        /\ IsNothing(yret)
        /\ IsNothing(result)

\* A cost comes back from a call in which the solver gave up
C13_CostFromFailedIntegration ==
    /\ pc = "done"
    /\ ~IsNothing(result)
    /\ \E k \in 1..Len(datasets) : reached[k] < Len(datasets[k].t)

\* The search computed one whole generation after the other, members in index
\* order: the costs of a generation's vectors
RefCosts(vecs) == [i \in 1..PopSize |-> Objective(vecs[i]).cost]

\* Generation g's trial vectors, from the selected population before it
RefTrial(prev, g) == TrialPop(seed, g, prev.pop, prev.cost, lbounds)

\* The population selected from prev and the trial vectors tr with costs tc
RefSelected(prev, tr, tc) ==
    [pop |-> SelectPop(prev.pop, prev.cost, tr, tc), cost |-> SelectCost(prev.cost, tc)]

RefNext(prev, tr) == RefSelected(prev, tr, RefCosts(tr))

\* Generation 0: the initial population and its costs
RefStart(vecs) == [pop |-> vecs, cost |-> RefCosts(vecs)]

\* Generation g from the selected population before it
RefFrom(prev, g) == RefNext(prev, RefTrial(prev, g))

\* The population and its costs once generation g is evaluated and selected
RECURSIVE RefGeneration(_)
RefGeneration(g) ==
    IF g = 0 THEN RefStart(InitPop(seed, lbounds)) ELSE RefFrom(RefGeneration(g - 1), g)

\* Every cost known so far is the cost of the vector it stands for, and the
\* vector evaluated last is one of those
KnownCostsAre(costs, vecs) ==
    /\ \A i \in 1..PopSize : IsNothing(costs[i]) \/ costs[i] = Objective(vecs[i]).cost
    /\ (\E i \in 1..PopSize : ~IsNothing(costs[i])) =>
          \E i \in 1..PopSize : ~IsNothing(costs[i]) /\ lastx = vecs[i]

\* Simulations run by one evaluation of the objective
SimsPerEvaluation == IF entry = "fit_controller" THEN 1 ELSE Len(datasets)

\* No member of the generation being evaluated has its cost yet
NoneEvaluated ==
    \A i \in 1..PopSize : IF gen = 0 THEN IsNothing(popcost[i]) ELSE IsNothing(trialcost[i])

\* The selected population and its costs are those of r
SelectedIs(r) == pop = r.pop /\ popcost = r.cost

\* The trial vectors of generation gen are those built from prev
HandedOutFrom(prev) == SelectedIs(prev) /\ trial = RefTrial(prev, gen)

\* As generation gen goes out to the workers, the populations are those of the
\* generation-by-generation search
DeferredAsHandedOut ==
    IF gen = 0 THEN pop = InitPop(seed, lbounds) ELSE HandedOutFrom(RefGeneration(gen - 1))

\* Once generation gen is evaluated, in whatever order, each cost is the cost of
\* the vector handed out
DeferredWhenEvaluated ==
    IF gen = 0 THEN KnownCostsAre(popcost, pop) ELSE KnownCostsAre(trialcost, trial)

\* A step from costs to costs2 adds at most costs of the vectors handed out,
\* the vector evaluated last being one of them
CostsAdded(costs, costs2, vecs, x2) ==
    \A i \in 1..PopSize :
        \/ costs2[i] = costs[i]
        \/ IsNothing(costs[i]) /\ costs2[i] = Objective(vecs[i]).cost /\ x2 = vecs[i]

\* An evaluation changes nothing of the search but the costs of the generation
\* being evaluated
EvaluationWritesCostOnly ==
    (pc = "evaluate" /\ pc' = "evaluate" /\ gen' = gen) =>
        /\ UNCHANGED <<pop, trial>>
        /\ IF gen = 0
           THEN CostsAdded(popcost, popcost', pop, lastx')
           ELSE UNCHANGED popcost /\ CostsAdded(trialcost, trialcost', trial, lastx')

\* Unpacking and returning run no simulation and leave the search's result alone
ReturnWritesNothing ==
    (pc \in {"unpack", "return"}) => UNCHANGED <<gen, pop, popcost, best, nsolve>>

\* The search has returned the best member of the last generation as it is
ReturnedUnpolished ==
    /\ gen = MaxGen
    /\ SelectedIs(RefGeneration(MaxGen))
    /\ best = pop[BestIndex(popcost)]
    /\ nsolve = (MaxGen + 1) * PopSize * SimsPerEvaluation

\* C14: the search updates its population in deferred mode: generation k+1 is
\* computed only after every member of generation k is evaluated, so for a
\* fixed seed the populations and the returned best vector are the same for
\* every order in which the workers complete the evaluations of a generation;
\* an evaluation reads the datasets and adapters and writes none of the data
\* the workers share; and no polishing runs after the search: the best member
\* of the last generation is returned as it is, with no further simulation.
C14_DeferredUpdating ==
    /\ [](entry \in FitEntries =>
            /\ (pc = "evaluate" /\ NoneEvaluated) => DeferredAsHandedOut
            /\ (pc = "evaluate" /\ GenerationEvaluated) => DeferredWhenEvaluated
            /\ pc = "unpack" => ReturnedUnpolished)
    /\ [][EvaluationWritesCostOnly]_vars
    /\ [][ReturnWritesNothing]_vars
    /\ [][pc = "evaluate" =>
            UNCHANGED <<datasets, ldatasets, adapters, lbounds, seed, controller, disp_cost>>]_vars

\* A search whose last generation was completed by member 1, after the others,
\* and replaced a member of the population
C14_Witness ==
    /\ entry = "fit_controller"
    /\ pc = "done"
    /\ gen = MaxGen
    /\ lastx = trial[1]
    /\ trial[1] # trial[PopSize]
    /\ pop # InitPop(seed, lbounds)
    /\ best # InitPop(seed, lbounds)[1]

Abs(n) == IF n < 0 THEN -n ELSE n

\* The line through the two samples around q (the first or last two samples
\* for q outside the samples), at q: an exact fraction
Linear(sig, q) == <<SigNum(sig, q), SigDen(sig, q)>>

\* a is e up to the rounding of a few operations on numbers of the samples' size
Near(a, e, size) ==
    Abs(a[1] * e[2] - e[1] * a[2]) * Pow2(SignificandBits - 2) <= size * a[2] * e[2]

SizeAt(sig, q) ==
    Abs(sig.v[InterpLo(sig.t, q)]) + Abs(sig.v[InterpLo(sig.t, q) + 1])
        + Abs(SigNum(sig, q) \div SigDen(sig, q)) + 1

\* q lies outside the samples, on the side of the segment from node i to node j (j the edge)
Clamped(sig, a) ==
    \/ /\ query < sig.t[1]
       /\ sig.v[1] # sig.v[2]
       /\ RatEq(a, Num(sig.v[1]))
    \/ /\ query > sig.t[Len(sig.t)]
       /\ sig.v[Len(sig.v)] # sig.v[Len(sig.v) - 1]
       /\ RatEq(a, Num(sig.v[Len(sig.v)]))

\* C15: an adapter built by create_interp_func from samples (t_i, v_i) with
\* strictly increasing t returns exactly v_i when called with t_i, for every i;
\* between consecutive samples it returns the piecewise-linear interpolant and
\* before t_1 or after t_N the linear extension of the first or last segment;
\* it never raises (every call has its answer) and never clamps to the edge value.
C15_AdapterExactAtNodes ==
    ~IsNothing(answer) =>
        /\ \A i \in 1..Len(itp.t) : query = itp.t[i] => RatEq(answer, Num(itp.v[i]))
        /\ Near(answer, Linear(itp, query), SizeAt(itp, query))
        /\ ~Clamped(itp, answer)

\* What holds of the adapter: the value is the line's up to rounding, never
\* the clamped edge value; it is exactly v_1 at t_1, and exactly the line's
\* wherever the samples are whole and two ticks apart (the grid of the datasets)
C15_AdapterLinearUpToRounding ==
    ~IsNothing(answer) =>
        /\ Near(answer, Linear(itp, query), SizeAt(itp, query))
        /\ ~Clamped(itp, answer)
        /\ query = itp.t[1] => RatEq(answer, Num(itp.v[1]))
        /\ (\A i \in 1..(Len(itp.t) - 1) : itp.t[i + 1] - itp.t[i] = 2) =>
              RatEq(answer, Linear(itp, query))

\* A sample that the adapter does not give back
C15_NodeMissed ==
    /\ ~IsNothing(answer)
    /\ itp.t = <<0, 49>>
    /\ itp.v = <<0, 1>>
    /\ query = 49
    /\ ~RatEq(answer, Num(1))

\* The keys of a dataset as the caller built it
DatasetKeys == {"t", "omega", "setpt", "disable"}

\* The caller's datasets hold what the caller put there, and the private
\* copies agree with them
CallerDataAsGiven ==
    /\ \A i \in 1..Len(datasets) : DOMAIN datasets[i] = DatasetKeys
    /\ ~IsNothing(ldatasets) =>
         /\ Len(ldatasets) = Len(datasets)
         /\ \A i \in 1..Len(datasets) : \A k \in DatasetKeys : ldatasets[i][k] = datasets[i][k]

\* Nothing is bound in the call but its arguments
FreshCall ==
    /\ IsNothing(lbounds) /\ IsNothing(lparam) /\ IsNothing(ldatasets) /\ IsNothing(adapters)
    /\ IsNothing(pop) /\ IsNothing(popcost) /\ IsNothing(trial) /\ IsNothing(trialcost)
    /\ IsNothing(best) /\ IsNothing(result)
    /\ err = NoError /\ steps = <<>> /\ nsolve = 0 /\ evals = <<>>

\* C16: a fitting call never changes the caller's datasets: in every step of
\* ensemble_fit_controller, up to its return or its exception, each dataset has
\* the same keys and the same t, omega, setpt and disable as before (setpt_func
\* and disable_func are added to private copies only), fit_controller likewise
\* leaves its t, omega, setpt and disable as they were, the cost functions
\* change no dataset either, and a later call starts with nothing of an earlier
\* call bound.
C16_CallerDataUntouched ==
    /\ [][datasets' = datasets]_vars
    /\ [](entry \in FitEntries => CallerDataAsGiven)
    /\ [][(pc \in {"done", "raised"} /\ pc' = "call") => FreshCall']_vars

\* A later call has returned; its private copies hold the adapters
C16_Witness ==
    /\ entry = "ensemble_fit_controller"
    /\ ncall = MaxCalls
    /\ pc = "done"
    /\ Len(datasets) = MaxDatasets
    /\ Adapted(ldatasets) = 1..Len(datasets)
    /\ \A i \in 1..Len(datasets) : "setpt_func" \notin DOMAIN datasets[i]

\* The flag rule: at a sample time the sample's flag decides; strictly inside a
\* sample interval feedback is suspended when a flag at either end is set
Suspended(ts, flags, q) ==
    IF \E k \in 1..Len(ts) : ts[k] = q
    THEN \E k \in 1..Len(ts) : ts[k] = q /\ flags[k] # 0
    ELSE \E k \in 1..(Len(ts) - 1) :
            ts[k] < q /\ q < ts[k + 1] /\ (flags[k] # 0 \/ flags[k + 1] # 0)

\* The derivative under the flag rule
FlagDy(param, ts, flags, q, y) ==
    IF Suspended(ts, flags, q) THEN DisabledDy(param, y) ELSE EnabledDy(param, q, y)

\* y + h * dy
Advance(y, h, dy) == <<y[1] + h * dy[1], y[2] + h * dy[2]>>

\* One solver step under the flag rule
FlagStep(param, ts, flags, q, y, h) ==
    Advance(y, h, FlagDy(param, ts, flags, q + (h \div 2),
                         Advance(y, h \div 2, FlagDy(param, ts, flags, q, y))))

\* The angular velocity at the samples from the k-th on under the flag rule
RECURSIVE FlagOmega(_, _, _, _, _)
FlagOmega(param, ts, flags, k, y) ==
    IF k = Len(ts) THEN <<y[1]>>
    ELSE <<y[1]>> \o FlagOmega(param, ts, flags, k + 1,
                               FlagStep(param, ts, flags, ts[k], y, ts[2] - ts[1]))

\* The ticks from the first sample to the last
Span(ts) == ts[1]..ts[Len(ts)]

\* The value of sig at q lies on the straight line through the samples at
\* either end of every sample interval that holds q
OnChord(sig, ts, flags, q) ==
    \A k \in 1..(Len(ts) - 1) :
        (ts[k] <= q /\ q <= ts[k + 1]) =>
            SigNum(sig, q) * (ts[k + 1] - ts[k])
              = SigDen(sig, q) * (flags[k] * (ts[k + 1] - q) + flags[k + 1] * (q - ts[k]))

\* The adapter sig over the flags is non-zero exactly where the flag rule
\* suspends feedback
NonZeroIsFlagRule(sig, flags) ==
    \A q \in Span(sig.t) : (SigNum(sig, q) # 0) <=> Suspended(sig.t, flags, q)

\* The i-th simulation of the latest cost function call ran on the adapter over
\* the i-th dataset's disable flags, and under the flag rule; the adapter agrees
\* with the flag rule whatever 0/1 flags were sampled at the dataset's times
RanUnderFlagRule(e, ds) ==
    /\ ds.disable \in [1..Len(ds.t) -> {0, 1}]
    /\ e.param["disable"].kind = "interp"
    /\ e.param["disable"].t = ds.t
    /\ e.param["disable"].v = ds.disable
    /\ \A q \in Span(ds.t) : OnChord(e.param["disable"], ds.t, ds.disable, q)
    /\ NonZeroIsFlagRule(e.param["disable"], ds.disable)
    /\ \A flags \in [1..Len(ds.t) -> {0, 1}] :
          NonZeroIsFlagRule(create_interp_func(e.param["disable"].id, ds.t, flags), flags)
    /\ e.omega_fit = FlagOmega(e.param, ds.t, ds.disable, 1, <<0, 0>>)

\* C17: during a fit the disable signal is the linear interpolation of the
\* dataset's 0/1 disable flags and state_func takes the disabled branch exactly
\* where it is non-zero: every simulation of the fit is the trajectory in which
\* feedback is suspended at each sample whose flag is 1 and everywhere strictly
\* inside a sample interval with a flag of 1 at either end (the ramp between a
\* 0 and a 1 included), and applied where the interpolated value is 0.
C17_SuspendedWhereSignalNonZero ==
    entry \in FitEntries =>
        \A i \in 1..Len(evals) : RanUnderFlagRule(evals[i], datasets[i])

\* The flags all 0: feedback on throughout
NoFlags(ds) == [k \in 1..Len(ds.t) |-> 0]

\* A fit has returned whose last simulation ran across a ramp from 0 to 1, and
\* the ramp changed its trajectory
C17_Witness ==
    /\ entry = "fit_controller"
    /\ pc = "done"
    /\ Len(evals) = 1
    /\ datasets[1].disable = <<0, 0, 1>>
    /\ SigNum(evals[1].param["disable"], 3) # 0
    /\ SigNum(evals[1].param["disable"], 3) < SigDen(evals[1].param["disable"], 3)
    /\ evals[1].omega_fit
         # FlagOmega(evals[1].param, datasets[1].t, NoFlags(datasets[1]), 1, <<0, 0>>)

\* With the adapter's arithmetic rounded: over 0/1 flags, wherever the line
\* through the samples is non-zero within the samples, so is the value the
\* adapter returns
C17_RoundedSignalNonZeroWhereLineIs ==
    (~IsNothing(answer) /\ itp.v \in [1..Len(itp.t) -> {0, 1}] /\ query \in Span(itp.t)) =>
        (SigNum(itp, query) # 0 => answer[1] # 0)

====
